---- MODULE Spec2Model ----
(***************************************************************************)
(* State-machine model of unix/simulator.py, the host-side bridge of the   *)
(* Coldcard simulator: the session loop of start(), the key translation    *)
(* and send_event(), the two display decoders (OLEDSimulator.new_contents, *)
(* LCDSimulator.new_contents) and the LED status decode.                   *)
(*                                                                         *)
(* Characters are represented by their code points (chr/ord), bytes by     *)
(* 0..255, Python's None by the value None.  The channels are byte         *)
(* sequences: display_pipe and led_pipe hold what the firmware has written *)
(* and the bridge has not read yet, keyout is everything the bridge has    *)
(* written to numpad_tx.                                                   *)
(***************************************************************************)
EXTENDS Integers, Sequences, FiniteSets, TLC

VARIABLES
    is_q1,          \* '--q1' in sys.argv: LCDSimulator (TRUE) or OLEDSimulator
    bare_metal,     \* '--metal' in sys.argv: bare_metal.request is in readables
    sock,           \* whether the file UNIX_SOCKET_PATH exists
    running,        \* the loop variable of start()
    pc,             \* position in start(): "events", "select", "channels",
                    \* "poll", "done" (after xterm.kill()), "raised" (an exception
                    \* left start()), "stopped" (the interpreter has exited)
    pressed,        \* the set of pressed keys
    keyout,         \* the bytes written to numpad_tx, oldest first
    ev,             \* the last host event handled in this pass of the loop body
                    \* (NoEvent before any)
    ctl,            \* what the last host event dispatched (see OnKey)
    rs,             \* the channels select() returned, not yet handled
    xterm,          \* the firmware process: "alive", "exited", "killed"
    display_pipe,   \* bytes readable on display_rx
    display_tx,     \* bytes of the firmware's current write not yet in the pipe
    led_pipe,       \* bytes readable on led_rx
    mv,             \* simdis.mv, the PixelView (see OledInitMv, LcdInitMv)
    buf,            \* what the last read of OLEDSimulator.new_contents returned
                    \* (empty when it returned nothing)
    recs,           \* the records the last LCDSimulator.new_contents call read
    active_set,     \* the mask last passed to draw_leds
    c,              \* the last byte read from led_rx (None before any)
    read_in_tick,   \* whether a channel was read since the loop body was entered
    nev,            \* host events handled so far
    nwr             \* firmware writes made so far

vars == <<is_q1, bare_metal, sock, running, pc, pressed, keyout, ev, ctl, rs, xterm,
          display_pipe, display_tx, led_pipe, mv, buf, recs, active_set, c,
          read_in_tick, nev, nwr>>

keyVars == <<pressed, keyout, ev, ctl, nev>>
dispVars == <<mv, buf, recs>>
ledVars == <<active_set, c>>
fwVars == <<display_pipe, display_tx, led_pipe, nwr>>
loopVars == <<running, pc, rs>>

----
\* Bounds of the model.

\* host input events handled in one run
MaxEvents == 3
\* writes the firmware makes in one run
MaxWrites == 2
\* pointer events handled in one run of the keypad slice
MaxClicks == 2
\* host events handled in one run of the whole-session slice
MaxSessionEvents == 2

----
\* Values.

None == 0 - 1

RECURSIVE BitAnd(_, _)
\* Python's a & b on non-negative integers
BitAnd(a, b) ==
    IF a = 0 \/ b = 0 THEN 0
    ELSE (a % 2) * (b % 2) + 2 * BitAnd(a \div 2, b \div 2)

\* ord() of the characters the code names
Ord0 == 48
Ord9 == 57
OrdEsc == 27
OrdCr == 13
OrdNl == 10
OrdA == 97
OrdZ == 122

\* '0123456789xy' as code points
DeviceAlphabet == (Ord0 .. Ord9) \cup {120, 121}

\* the look-up string of click_to_key, '123456789x0y'
KeypadSymbols == <<49, 50, 51, 52, 53, 54, 55, 56, 57, 120, 48, 121>>

KEYPAD_LEFT == 52
KEYPAD_TOP == 216
KEYPAD_PITCH == 73

\* sdl2.scancode
SDL_SCANCODE_RIGHT == 79
SDL_SCANCODE_LEFT == 80
SDL_SCANCODE_DOWN == 81
SDL_SCANCODE_UP == 82
SDL_SCANCODE_F1 == 58

\* SDL's keysym of a key without a character: SDLK_SCANCODE_MASK | scancode
ScancodeSym(sc) == 2^30 + sc

\* ../shared/charcodes.py (q1_charmap): the Q1's codes of its special keys
q1_charmap ==
    [KEY_RIGHT |-> 12, KEY_LEFT |-> 8, KEY_DOWN |-> 11, KEY_UP |-> 5,
     KEY_F1 |-> 17, KEY_NFC |-> 14, KEY_QR |-> 18, KEY_LAMP |-> 15]

----
\* Key translation.

\* shift_up(ch): the character of ch with shift held
shift_up(ch) ==
    LET f == <<49, 50, 51, 52, 53, 54, 55, 56, 57, 48, 45, 61, 92, 96, 91, 93,
               59, 39, 44, 46, 47>>
        t == <<33, 64, 35, 36, 37, 94, 38, 42, 40, 41, 95, 43, 124, 126, 123,
               125, 58, 34, 60, 62, 63>>
        idx == {i \in 1..Len(f) : f[i] = ch}
    IN  IF OrdA <= ch /\ ch <= OrdZ THEN ch - 32
        ELSE IF idx # {} THEN t[CHOOSE i \in idx : TRUE]
        ELSE ch

\* alt_up(ch): ALT+ch on the Q1
alt_up(ch) ==
    IF ch = 110 THEN q1_charmap.KEY_NFC
    ELSE IF ch = 113 THEN q1_charmap.KEY_QR
    ELSE IF ch = 108 THEN q1_charmap.KEY_LAMP
    ELSE None

\* scancode_remap(sc): the Q1's code of a special key, or None
scancode_remap(sc) ==
    CASE sc = SDL_SCANCODE_RIGHT -> q1_charmap.KEY_RIGHT
      [] sc = SDL_SCANCODE_LEFT -> q1_charmap.KEY_LEFT
      [] sc = SDL_SCANCODE_DOWN -> q1_charmap.KEY_DOWN
      [] sc = SDL_SCANCODE_UP -> q1_charmap.KEY_UP
      [] sc = SDL_SCANCODE_F1 -> q1_charmap.KEY_F1
      [] OTHER -> None

\* ch.encode(): the UTF-8 bytes of one character
Encode(ch) ==
    IF ch < 128 THEN <<ch>>
    ELSE IF ch < 2048 THEN <<192 + (ch \div 64), 128 + (ch % 64)>>
    ELSE IF ch < 65536
         THEN <<224 + (ch \div 4096), 128 + ((ch \div 64) % 64), 128 + (ch % 64)>>
    ELSE <<240 + (ch \div 262144), 128 + ((ch \div 4096) % 64),
           128 + ((ch \div 64) % 64), 128 + (ch % 64)>>

\* The character of a key event: lines 411-431.  skip is the `continue` of the
\* except branch; ch may be None (alt_up).
KeyChar(e, q1) ==
    IF 0 <= e.sym /\ e.sym <= 1114111
    THEN LET ch0 == e.sym
             ch1 == IF BitAnd(e.mod, 3) # 0 THEN shift_up(ch0) ELSE ch0
             ch2 == IF BitAnd(e.mod, 768) # 0 THEN alt_up(ch1) ELSE ch1
         IN  [skip |-> FALSE, ch |-> ch2]
    ELSE LET scancode == BitAnd(e.sym, 65535)
         IN  IF q1
             THEN [skip |-> scancode_remap(scancode) = None,
                   ch |-> scancode_remap(scancode)]
             ELSE IF SDL_SCANCODE_RIGHT <= scancode /\ scancode <= SDL_SCANCODE_UP
             THEN [skip |-> FALSE,
                   ch |-> <<57, 55, 56, 53>>[scancode - SDL_SCANCODE_RIGHT + 1]]
             ELSE [skip |-> TRUE, ch |-> None]

\* send_event without `if ch not in pressed`: key repeat reaches the firmware
send_event_repeats(k, ch, is_down) ==
    IF is_down
    THEN IF ch = None
         THEN [k EXCEPT !.exc = TRUE]
         ELSE [k EXCEPT !.out = @ \o Encode(ch), !.pressed = @ \cup {ch}]
    ELSE LET left == k.pressed \ {ch}
         IN  [k EXCEPT !.pressed = left,
                       !.out = IF left = {} THEN @ \o <<0>> ELSE @]

\* send_event without `if not pressed`: every release writes the marker
send_event_marks_each_release(k, ch, is_down) ==
    IF is_down
    THEN IF ch \notin k.pressed
         THEN IF ch = None
              THEN [k EXCEPT !.exc = TRUE]
              ELSE [k EXCEPT !.out = @ \o Encode(ch), !.pressed = @ \cup {ch}]
         ELSE k
    ELSE [k EXCEPT !.pressed = @ \ {ch}, !.out = @ \o <<0>>]

\* send_event(ch, is_down) on k = [pressed, out, exc]: out is what it writes to
\* numpad_tx, exc whether it raises (None has no encode()).
send_event(k, ch, is_down) ==
    IF is_down
    THEN IF ch \notin k.pressed
         THEN IF ch = None
              THEN [k EXCEPT !.exc = TRUE]
              ELSE [k EXCEPT !.out = @ \o Encode(ch), !.pressed = @ \cup {ch}]
         ELSE k
    ELSE LET left == k.pressed \ {ch}
         IN  [k EXCEPT !.pressed = left,
                       !.out = IF left = {} THEN @ \o <<0>> ELSE @]

RECURSIVE ReleaseAll(_, _)
\* for ch in list(pressed): send_event(ch, False)
ReleaseAll(k, todo) ==
    IF todo = {} THEN k
    ELSE LET ch == CHOOSE x \in todo : TRUE
         IN  ReleaseAll(send_event(k, ch, FALSE), todo \ {ch})

RECURSIVE ManyOk(_)
\* for i in range(n): write(b'y\n'); write(b'\n')
ManyOk(n) ==
    IF n = 0 THEN <<>> ELSE <<121, OrdNl>> \o <<OrdNl>> \o ManyOk(n - 1)

\* click_to_key with the grid's origin one pixel to the right and down
OledClickToKey_shifted(x, y) ==
    LET col == (x - KEYPAD_LEFT - 1) \div KEYPAD_PITCH
        row == (y - KEYPAD_TOP - 1) \div KEYPAD_PITCH
    IN  IF ~(0 <= row /\ row < 4) THEN None
        ELSE IF ~(0 <= col /\ col < 3) THEN None
        ELSE KeypadSymbols[(row * 3) + col + 1]

\* click_to_key of the OLEDSimulator
OledClickToKey(x, y) ==
    LET col == (x - KEYPAD_LEFT) \div KEYPAD_PITCH
        row == (y - KEYPAD_TOP) \div KEYPAD_PITCH
    IN  IF ~(0 <= row /\ row < 4) THEN None
        ELSE IF ~(0 <= col /\ col < 3) THEN None
        ELSE KeypadSymbols[(row * 3) + col + 1]

\* click_to_key of the LCDSimulator
LcdClickToKey(x, y) == None

\* the test of line 434 without the event type: either edge
ControlPress_any_edge(e) ==
    e.mod = 64

\* the test of line 434: the control accelerator, on the press edge
ControlPress(e) ==
    e.mod = 64 /\ e.type = "KEYDOWN"

\* the test of line 466
ControlHeld(e) ==
    e.mod = 64

\* lines 472-475: escape and return on the Mk4
Mk4Remap(ch) ==
    IF ch = OrdEsc THEN 120 ELSE IF ch = OrdCr THEN 121 ELSE ch

\* line 477 never true: every character is forwarded
Mk4Rejects_nothing(ch) ==
    FALSE

\* the test of line 477
Mk4Rejects(ch) ==
    ch \notin DeviceAlphabet

\* The outcome of one SDL_KEYDOWN / SDL_KEYUP event, lines 410-483:
\* [pressed, out, exc, quit, ctl].
OnKey(e, q1, p) ==
    LET k0 == [pressed |-> p, out |-> <<>>, exc |-> FALSE]
        res(k, quit, what) ==
            [pressed |-> k.pressed, out |-> k.out, exc |-> k.exc,
             quit |-> quit, ctl |-> what]
        kc == KeyChar(e, q1)
        ch == kc.ch
        isdown == e.type = "KEYDOWN"
        mapped == Mk4Remap(ch)
    IN  IF kc.skip THEN res(k0, FALSE, "none")
        ELSE IF ControlPress(e) /\ ch = 113 THEN res(k0, TRUE, "quit")
        ELSE IF ControlPress(e) /\ ch = 122 THEN res(k0, FALSE, "snapshot")
        ELSE IF ControlPress(e) /\ ch = 115 THEN res(k0, FALSE, "movie_start")
        ELSE IF ControlPress(e) /\ ch = 101 THEN res(k0, FALSE, "movie_end")
        ELSE IF ControlPress(e) /\ ch = 109
             THEN res([k0 EXCEPT !.out = ManyOk(30)], FALSE, "many_ok")
        ELSE IF ControlHeld(e)
             THEN res(k0, FALSE, IF ControlPress(e) /\ ch = 110 THEN "nfc" ELSE "none")
        ELSE IF ~q1 /\ ch = None THEN res([k0 EXCEPT !.exc = TRUE], FALSE, "none")
        ELSE IF ~q1 /\ Mk4Rejects(mapped) THEN res(k0, FALSE, "none")
        ELSE res(send_event(k0, IF q1 THEN ch ELSE mapped, isdown), FALSE, "key")

\* The outcome of any host event of the loop at lines 405-493.
OnEvent(e, q1, p) ==
    LET k0 == [pressed |-> p, out |-> <<>>, exc |-> FALSE]
        res(k, quit, what) ==
            [pressed |-> k.pressed, out |-> k.out, exc |-> k.exc,
             quit |-> quit, ctl |-> what]
        click == IF q1 THEN LcdClickToKey(e.x, e.y) ELSE OledClickToKey(e.x, e.y)
    IN  CASE e.type = "QUIT" -> res(k0, TRUE, "quit")
          [] e.type \in {"KEYDOWN", "KEYUP"} -> OnKey(e, q1, p)
          [] e.type = "MOUSEBUTTONDOWN" ->
                IF click # None THEN res(send_event(k0, click, TRUE), FALSE, "key")
                ELSE res(k0, FALSE, "none")
          [] e.type = "MOUSEBUTTONUP" -> res(ReleaseAll(k0, p), FALSE, "key")

----
\* The host events of the model.

\* '5', escape, return, 'q', 'm', the up arrow and the left control key itself
\* (scancode 224)
KeySyms == {53, OrdEsc, OrdCr, 113, 109, ScancodeSym(SDL_SCANCODE_UP),
            ScancodeSym(224)}
\* none, left control, left control + left shift, left alt
KeyMods == {0, 64, 65, 256}
\* the last pixel of the keypad's last cell, and the pixel right of it
Clicks == {<<270, 507>>, <<271, 507>>}

\* the first and last pixel column and row of every keypad cell, and the pixels
\* next to the grid
ClickXs == {51, 52, 124, 125, 197, 198, 270, 271}
ClickYs == {215, 216, 288, 289, 361, 362, 434, 435, 507, 508}

NoEvent == [type |-> "NONE", sym |-> 0, mod |-> 0, x |-> 0, y |-> 0]

HostEvents ==
    [type : {"KEYDOWN", "KEYUP"}, sym : KeySyms, mod : KeyMods, x : {0}, y : {0}]
    \cup {[type |-> "MOUSEBUTTONDOWN", sym |-> 0, mod |-> 0, x |-> xy[1], y |-> xy[2]] :
            xy \in Clicks}
    \cup {[type |-> "MOUSEBUTTONUP", sym |-> 0, mod |-> 0, x |-> 0, y |-> 0],
          [type |-> "QUIT", sym |-> 0, mod |-> 0, x |-> 0, y |-> 0]}

\* the host events of the whole-session slice: '5' down, control+'q', alt+'5'
\* and the window's close button
SessionEvents ==
    {[type |-> "KEYDOWN", sym |-> 53, mod |-> 0, x |-> 0, y |-> 0],
     [type |-> "KEYDOWN", sym |-> 113, mod |-> 64, x |-> 0, y |-> 0],
     [type |-> "KEYDOWN", sym |-> 53, mod |-> 256, x |-> 0, y |-> 0],
     [type |-> "QUIT", sym |-> 0, mod |-> 0, x |-> 0, y |-> 0]}

\* the pointer events of the keypad slice
ClickEvents ==
    {[type |-> "MOUSEBUTTONDOWN", sym |-> 0, mod |-> 0, x |-> x, y |-> y] :
        x \in ClickXs, y \in ClickYs}
    \cup {[type |-> "MOUSEBUTTONUP", sym |-> 0, mod |-> 0, x |-> 0, y |-> 0]}

----
\* The display decoders.

\* Python's s[-n:]
LastBytes(s, n) ==
    IF Len(s) <= n THEN s ELSE SubSeq(s, Len(s) - n + 1, Len(s))

\* Python's stream.read(n) on bytes s: the first n bytes, fewer when fewer are there
FirstBytes(s, n) ==
    IF Len(s) <= n THEN s ELSE SubSeq(s, 1, n)

\* what read(n) leaves in the stream
RestBytes(s, n) ==
    IF Len(s) <= n THEN <<>> ELSE SubSeq(s, n + 1, Len(s))

\* OLEDSimulator: self.fg, self.bg and the sprite after sdl2.ext.fill(s, self.bg);
\* mv[y][x] with y in 0..63, x in 0..127
OledFg == "#ccf"
OledBg == "#111"
OledInitMv == [y \in 0..63 |-> [x \in 0..127 |-> OledBg]]

\* the loops at lines 194-201 with the mask starting at 0x80 and shifted right
OledPaint_msb_first(b) ==
    [row \in 0..63 |->
        [x \in 0..127 |->
            LET y == 8 * (row \div 8)
                i == row - y
                val == b[((y * 128) \div 8) + x + 1]
                mask == 2^(7 - i)
            IN  IF BitAnd(val, mask) # 0 THEN OledFg ELSE OledBg]]

\* The loops at lines 194-201 on the 1024 bytes b: pixel (y+i, x) is set once, in
\* the pass of band y = 0, 8, .. 56, column x and bit i, from val & (0x01 << i).
OledPaint(b) ==
    [row \in 0..63 |->
        [x \in 0..127 |->
            LET y == 8 * (row \div 8)
                i == row - y
                val == b[((y * 128) \div 8) + x + 1]
                mask == 2^i
            IN  IF BitAnd(val, mask) # 0 THEN OledFg ELSE OledBg]]

\* OLEDSimulator.new_contents without `if not buf: return`
OledNewContents_no_empty_check(pipe, old) ==
    LET got == FirstBytes(pipe, 1024 * 1000)
        tail == LastBytes(got, 1024)
    IN  IF Len(tail) # 1024
        THEN [mv |-> old, buf |-> got, exc |-> TRUE]
        ELSE [mv |-> OledPaint(tail), buf |-> got, exc |-> FALSE]

\* OLEDSimulator.new_contents on the readable bytes `pipe`:
\* [mv, buf, exc], buf empty when the read returned nothing.
OledNewContents(pipe, old) ==
    LET got == FirstBytes(pipe, 1024 * 1000)
        tail == LastBytes(got, 1024)
    IN  IF got = <<>> THEN [mv |-> old, buf |-> got, exc |-> FALSE]
        ELSE IF Len(tail) # 1024 THEN [mv |-> old, buf |-> got, exc |-> TRUE]
        ELSE [mv |-> OledPaint(tail), buf |-> got, exc |-> FALSE]

\* LCDSimulator.palette_colours
palette_colours ==
    <<"#000", "#fff", "#f00", "#0f0", "#00f", "#555", "#999", "#ddd", "#111111",
      "#151515", "#191919", "#1d1d1d", "#200", "#400", "#800", "#f16422">>

\* LCDSimulator: the 320x240 sprite after sdl2.ext.fill(s, self.palette[0]).  mv
\* maps the cells <<y, x>> that have been assigned to their colour; every other
\* cell still holds palette[0].
LcdInitMv == <<>>

\* the colour of cell (y, x) of the LCD sprite
LcdPixel(m, y, x) ==
    IF <<y, x>> \in DOMAIN m THEN m[<<y, x>>] ELSE palette_colours[1]

\* struct.unpack('<4H', prefix)
Unpack4H(prefix) ==
    [k \in 1..4 |-> prefix[2 * k - 1] + 256 * prefix[2 * k]]

\* struct.pack('<4H', X, Y, w, h), what the firmware sends as a header
Pack4H(X, Y, w, h) ==
    <<X % 256, X \div 256, Y % 256, Y \div 256,
      w % 256, w \div 256, h % 256, h \div 256>>

\* The loops at lines 124-129: the cells of the rectangle, row-major, from the
\* bytes of `here` in the order received.
LcdPaint(m, X, Y, w, h, here) ==
    LET rect == {<<y, x>> : y \in Y..(Y + h - 1), x \in X..(X + w - 1)}
    IN  [cell \in (DOMAIN m) \cup rect |->
            IF cell \in rect
            THEN LET pos == (cell[1] - Y) * w + (cell[2] - X)
                 IN  palette_colours[BitAnd(here[pos + 1], 15) + 1]
            ELSE m[cell]]

\* the assertions of lines 116-118 with the bounds off by one
LcdHeaderOk_off_by_one(X, Y, w, h) ==
    /\ X >= 0 /\ Y >= 0
    /\ X + w <= 321
    /\ Y + h <= 241

\* the assertions of lines 116-118
LcdHeaderOk(X, Y, w, h) ==
    /\ X >= 0 /\ Y >= 0
    /\ X + w <= 320
    /\ Y + h <= 240

\* the assertion of line 122 as `assert here and len(here) == sz`
LcdPayloadOk_not_empty(here, sz) ==
    here # <<>> /\ Len(here) = sz

\* the assertion of line 122 (read() of an empty non-blocking stream returns
\* None, and len(None) raises too, unless sz = 0)
LcdPayloadOk(here, sz) ==
    Len(here) = sz

\* One pass of the `while 1` loop of LCDSimulator.new_contents on
\* st = [pipe, mv, recs, exc, stop]: stop is the `return` of line 113 or a raise.
LcdRecordStep(st) ==
    LET prefix == FirstBytes(st.pipe, 8)
        after == RestBytes(st.pipe, 8)
        hdr == Unpack4H(prefix)
        X == hdr[1]
        Y == hdr[2]
        w == hdr[3]
        h == hdr[4]
        sz == w * h
        here == FirstBytes(after, sz)
        rec(ok) == [X |-> X, Y |-> Y, w |-> w, h |-> h, here |-> here, ok |-> ok]
    IN  IF prefix = <<>> THEN [st EXCEPT !.stop = TRUE]
        ELSE IF Len(prefix) # 8
             THEN [st EXCEPT !.pipe = after, !.exc = TRUE, !.stop = TRUE]
        ELSE IF ~LcdHeaderOk(X, Y, w, h)
             THEN [st EXCEPT !.pipe = after, !.exc = TRUE, !.stop = TRUE,
                             !.recs = Append(@, [rec(FALSE) EXCEPT !.here = <<>>])]
        ELSE IF ~LcdPayloadOk(here, sz)
             THEN [st EXCEPT !.pipe = RestBytes(after, sz), !.exc = TRUE,
                             !.stop = TRUE, !.recs = Append(@, rec(FALSE))]
        ELSE [pipe |-> RestBytes(after, sz),
              mv |-> LcdPaint(st.mv, X, Y, w, h, here),
              recs |-> Append(st.recs, rec(TRUE)),
              exc |-> FALSE,
              stop |-> FALSE]

\* `if 1` for `while 1`: one record per call
LcdLoop_once(st) ==
    LcdRecordStep(st)

RECURSIVE LcdLoop(_)
\* `while 1`, lines 111-129
LcdLoop(st) ==
    LET n == LcdRecordStep(st)
    IN  IF n.stop THEN n ELSE LcdLoop(n)

\* LCDSimulator.new_contents on the readable bytes `pipe`
LcdNewContents(pipe, old) ==
    LcdLoop([pipe |-> pipe, mv |-> old, recs |-> <<>>, exc |-> FALSE, stop |-> FALSE])

----
\* The LED status byte, lines 516-519.

\* the low nibble alone, the mask nibble ignored
LedActiveSet_state_only(byte) ==
    BitAnd(byte, 15)

LedActiveSet(byte) ==
    LET mask == BitAnd(byte \div 16, 15)
        lset == BitAnd(byte, 15)
    IN  BitAnd(mask, lset)

\* draw_leds raises on the LCDSimulator when it needs led_sdcard or led_usb,
\* which only OLEDSimulator.__init__ loads
DrawLedsRaises(q1, active) ==
    q1 /\ (BitAnd(active, 2) # 0 \/ BitAnd(active, 4) # 0)

----
\* What the firmware writes in the model.

OledFrames == {1, 2}
\* a full 1024-byte frame; the two frames differ in every byte
OledFrame(f) == [i \in 1..1024 |-> ((i - 1) * (2 * f + 1) + 85 * f) % 256]
\* where a write to display_w may be split
OledChunks == {500}

\* <<X, Y, w, h>> of the update records
LcdHeaders ==
    {<<0, 0, 2, 1>>, <<1, 0, 2, 2>>, <<318, 239, 2, 1>>, <<318, 0, 3, 1>>,
     <<0, 239, 1, 2>>, <<5, 5, 0, 3>>, <<5, 5, 3, 0>>, <<319, 0, 2, 0>>}
LcdPatterns == {1, 2}
\* n payload bytes; the high nibbles are not zero
LcdPayload(p, n) == [i \in 1..n |-> (16 * (i + p) + 3 * i + p) % 256]
LcdRecord(hd, p) ==
    Pack4H(hd[1], hd[2], hd[3], hd[4]) \o LcdPayload(p, hd[3] * hd[4])
LcdChunks == {3, 8}

\* the status bytes that follow the first one, which is any byte
LedBytes == {0, 241, 18}

\* what the firmware writes in the whole-session slice: the genuine LED on, the
\* SD-card LED on; one display update of the variant; 3 bytes of it at first
SessionLedBytes == {241, 34}
SessionFrame(q1) == IF q1 THEN LcdRecord(<<0, 0, 2, 1>>, 1) ELSE OledFrame(1)
SessionChunks == {3}

----
\* The state after the set-up of start(), lines 300-389.

InitStart(q1, metal) ==
    /\ is_q1 = q1
    /\ bare_metal = metal
    /\ sock = FALSE
    /\ read_in_tick = FALSE
    /\ running = TRUE
    /\ pc = "events"
    /\ pressed = {}
    /\ keyout = <<>>
    /\ ev = NoEvent
    /\ ctl = "none"
    /\ rs = <<>>
    /\ xterm = "alive"
    /\ display_pipe = <<>>
    /\ display_tx = <<>>
    /\ led_pipe = <<>>
    /\ mv = IF q1 THEN LcdInitMv ELSE OledInitMv
    /\ buf = <<>>
    /\ recs = <<>>
    /\ active_set = 0
    /\ c = None
    /\ nev = 0
    /\ nwr = 0

\* without '--metal'
InitSession(q1) ==
    InitStart(q1, FALSE)

Init ==
    \E q1 \in BOOLEAN : InitSession(q1)

\* with '--metal'
InitMetal ==
    \E q1 \in BOOLEAN : InitStart(q1, TRUE)

InLoop == pc \in {"events", "select", "channels", "poll"}

\* the events are drained again once the channels are handled
AfterChannels_more_events(left) ==
    IF left = <<>> THEN "events" ELSE "channels"

\* where the loop goes after a channel handler, or after select()
AfterChannels(left) == IF left = <<>> THEN "poll" ELSE "channels"

----
\* The steps of the loop at lines 403-534.

\* one event of `for event in events`, lines 405-493
HostEvent(e) ==
    /\ pc = "events"
    /\ nev < MaxEvents
    /\ LET r == OnEvent(e, is_q1, pressed)
       IN  /\ pressed' = r.pressed
           /\ keyout' = keyout \o r.out
           /\ ctl' = r.ctl
           /\ running' = IF r.quit THEN FALSE ELSE running
           /\ pc' = IF r.exc THEN "raised" ELSE IF r.quit THEN "select" ELSE "events"
    /\ ev' = e
    /\ nev' = nev + 1
    /\ UNCHANGED <<is_q1, bare_metal, sock, rs, xterm, dispVars, ledVars, fwVars,
                   read_in_tick>>

\* select(readables, [], [], .001), line 495, once the events of the tick are
\* handled.  A channel with bytes is reported; one of `spurious` may be
\* reported although nothing can be read from it.  What bare_metal.request
\* carries is not modelled: it is ready or not.  rs keeps the order of readables.
Select(spurious) ==
    /\ pc \in {"events", "select"}
    /\ \E sp \in SUBSET spurious :
          LET d == display_pipe # <<>> \/ "display_rx" \in sp
              l == led_pipe # <<>> \/ "led_rx" \in sp
              m == bare_metal /\ "request" \in sp
              got == (IF d THEN <<"display_rx">> ELSE <<>>)
                        \o (IF l THEN <<"led_rx">> ELSE <<>>)
                        \o (IF m THEN <<"request">> ELSE <<>>)
          IN  /\ rs' = got
              /\ pc' = AfterChannels(got)
    /\ UNCHANGED <<is_q1, bare_metal, sock, running, xterm, keyVars, dispVars,
                   ledVars, fwVars, read_in_tick>>

\* r is bare_metal.request, lines 498-500
DispatchMetal ==
    /\ pc = "channels"
    /\ rs # <<>> /\ Head(rs) = "request"
    /\ rs' = Tail(rs)
    /\ pc' = AfterChannels(Tail(rs))
    /\ read_in_tick' = TRUE
    /\ UNCHANGED <<is_q1, bare_metal, sock, running, xterm, keyVars, dispVars,
                   ledVars, fwVars>>

\* r is display_rx, lines 502-505
DispatchDisplay ==
    /\ pc = "channels"
    /\ rs # <<>> /\ Head(rs) = "display_rx"
    /\ IF is_q1
       THEN LET r == LcdNewContents(display_pipe, mv)
            IN  /\ mv' = r.mv
                /\ recs' = r.recs
                /\ display_pipe' = r.pipe
                /\ pc' = IF r.exc THEN "raised" ELSE AfterChannels(Tail(rs))
                /\ buf' = buf
       ELSE LET r == OledNewContents(display_pipe, mv)
            IN  /\ mv' = r.mv
                /\ buf' = r.buf
                /\ display_pipe' = RestBytes(display_pipe, 1024 * 1000)
                /\ pc' = IF r.exc THEN "raised" ELSE AfterChannels(Tail(rs))
                /\ recs' = recs
    /\ rs' = Tail(rs)
    /\ read_in_tick' = TRUE
    /\ UNCHANGED <<is_q1, bare_metal, sock, running, xterm, keyVars, ledVars,
                   display_tx, led_pipe, nwr>>

\* r is led_rx, lines 506-526
DispatchLed ==
    /\ pc = "channels"
    /\ rs # <<>> /\ Head(rs) = "led_rx"
    /\ IF led_pipe = <<>>
       THEN /\ c' = None
            /\ rs' = <<>>
            /\ pc' = "poll"
            /\ UNCHANGED <<active_set, led_pipe>>
       ELSE /\ c' = Head(led_pipe)
            /\ led_pipe' = Tail(led_pipe)
            /\ active_set' = LedActiveSet(Head(led_pipe))
            /\ rs' = Tail(rs)
            /\ pc' = IF DrawLedsRaises(is_q1, LedActiveSet(Head(led_pipe)))
                     THEN "raised" ELSE AfterChannels(Tail(rs))
    /\ read_in_tick' = TRUE
    /\ UNCHANGED <<is_q1, bare_metal, sock, running, xterm, keyVars, dispVars,
                   display_pipe, display_tx, nwr>>

\* lines 530-534 and the loop condition: xterm.poll(), `while running`, xterm.kill()
Poll ==
    /\ pc = "poll"
    /\ IF xterm # "alive"
       THEN pc' = "done" /\ xterm' = xterm
       ELSE IF running
       THEN pc' = "events" /\ xterm' = xterm
       ELSE pc' = "done" /\ xterm' = "killed"
    /\ read_in_tick' = IF xterm = "alive" /\ running THEN FALSE ELSE read_in_tick
    /\ ev' = IF xterm = "alive" /\ running THEN NoEvent ELSE ev
    /\ UNCHANGED <<is_q1, bare_metal, sock, running, rs, pressed, keyout, ctl, nev,
                   dispVars, ledVars, fwVars>>

\* The interpreter exits, after start() returned or an exception left it, and
\* runs the handler registered at line 339: sock_cleanup, lines 332-336.
Exit ==
    /\ pc \in {"done", "raised"}
    /\ pc' = "stopped"
    /\ sock' = FALSE
    /\ UNCHANGED <<is_q1, bare_metal, running, rs, xterm, keyVars, dispVars, ledVars,
                   fwVars, read_in_tick>>

----
\* The firmware process.

\* it exits by itself
XtermExit ==
    /\ InLoop
    /\ xterm = "alive"
    /\ xterm' = "exited"
    /\ UNCHANGED <<is_q1, bare_metal, sock, loopVars, keyVars, dispVars, ledVars, fwVars,
                   read_in_tick>>

\* it creates its socket at UNIX_SOCKET_PATH
FwBind ==
    /\ xterm = "alive"
    /\ ~sock
    /\ sock' = TRUE
    /\ UNCHANGED <<is_q1, bare_metal, loopVars, xterm, keyVars, dispVars, ledVars,
                   fwVars, read_in_tick>>

\* it starts to write `bytes` to display_w
FwWrite(bytes) ==
    /\ InLoop
    /\ xterm = "alive"
    /\ nwr < MaxWrites
    /\ display_tx = <<>>
    /\ display_tx' = bytes
    /\ nwr' = nwr + 1
    /\ UNCHANGED <<is_q1, bare_metal, sock, loopVars, xterm, keyVars, dispVars, ledVars,
                   display_pipe, led_pipe, read_in_tick>>

\* the next n bytes of its write arrive in the pipe: all that is left, or a chunk
FwDeliver(chunks) ==
    /\ InLoop
    /\ xterm = "alive"
    /\ display_tx # <<>>
    /\ \E n \in {Len(display_tx)} \cup {k \in chunks : k < Len(display_tx)} :
          /\ display_pipe' = display_pipe \o FirstBytes(display_tx, n)
          /\ display_tx' = RestBytes(display_tx, n)
    /\ UNCHANGED <<is_q1, bare_metal, sock, loopVars, xterm, keyVars, dispVars, ledVars,
                   led_pipe, nwr, read_in_tick>>

\* it writes one status byte to led_w
FwWriteLed(b) ==
    /\ InLoop
    /\ xterm = "alive"
    /\ nwr < MaxWrites
    /\ nwr = 0 \/ b \in LedBytes
    /\ led_pipe' = Append(led_pipe, b)
    /\ nwr' = nwr + 1
    /\ UNCHANGED <<is_q1, bare_metal, sock, loopVars, xterm, keyVars, dispVars, ledVars,
                   display_pipe, display_tx, read_in_tick>>

----
\* The session, and the four slices of it that are explored.

Next ==
    \/ \E e \in HostEvents : HostEvent(e)
    \/ Select({"display_rx", "led_rx", "request"})
    \/ DispatchMetal
    \/ DispatchDisplay
    \/ DispatchLed
    \/ Poll
    \/ Exit
    \/ XtermExit
    \/ FwBind
    \/ \E f \in OledFrames : ~is_q1 /\ FwWrite(OledFrame(f))
    \/ \E hd \in LcdHeaders, p \in LcdPatterns : is_q1 /\ FwWrite(LcdRecord(hd, p))
    \/ FwDeliver(OledChunks \cup LcdChunks)
    \/ \E b \in 0..255 : FwWriteLed(b)

Spec == (Init \/ InitMetal) /\ [][Next]_vars

\* host input only: both variants, the firmware silent
NextKeys ==
    \/ \E e \in HostEvents : HostEvent(e)
    \/ Select({})
    \/ Poll

SpecKeys == Init /\ [][NextKeys]_vars

\* the monochrome display channel
NextOled ==
    \/ \E f \in OledFrames : FwWrite(OledFrame(f))
    \/ FwDeliver(OledChunks)
    \/ Select({"display_rx"})
    \/ DispatchDisplay
    \/ Poll

SpecOled == InitSession(FALSE) /\ [][NextOled]_vars

\* the indexed display channel
NextLcd ==
    \/ \E hd \in LcdHeaders, p \in LcdPatterns : FwWrite(LcdRecord(hd, p))
    \/ FwDeliver(LcdChunks)
    \/ Select({})
    \/ DispatchDisplay
    \/ Poll

SpecLcd == InitSession(TRUE) /\ [][NextLcd]_vars

\* the LED channel, both variants
NextLed ==
    \/ \E b \in 0..255 : FwWriteLed(b)
    \/ Select({"led_rx"})
    \/ DispatchLed
    \/ Poll

SpecLed == Init /\ [][NextLed]_vars

\* the Mk4's keypad under the pointer
NextClicks ==
    \/ \E e \in ClickEvents : nev < MaxClicks /\ HostEvent(e)
    \/ Select({})
    \/ Poll

SpecClicks == InitSession(FALSE) /\ [][NextClicks]_vars

\* the whole session of the Q1, with and without '--metal', on a few inputs
NextSession ==
    \/ \E e \in SessionEvents : nev < MaxSessionEvents /\ HostEvent(e)
    \/ Select({"led_rx", "request"})
    \/ DispatchMetal
    \/ DispatchDisplay
    \/ DispatchLed
    \/ Poll
    \/ Exit
    \/ XtermExit
    \/ FwBind
    \/ FwWrite(SessionFrame(is_q1))
    \/ FwDeliver(SessionChunks)
    \/ \E b \in SessionLedBytes : FwWriteLed(b)

SpecSession == (\E metal \in BOOLEAN : InitStart(TRUE, metal)) /\ [][NextSession]_vars

----
\* Key-out: what a step of the session writes, and the shapes it can have.

\* the bytes the step appends to key-out
Wrote == SubSeq(keyout', Len(keyout) + 1, Len(keyout'))

\* the step handles a host event
EventStep == nev' = nev + 1

\* the step adds one key to the pressed set and writes that key's one-byte code
DownTransition ==
    \E k \in pressed' \ pressed :
        /\ pressed' = pressed \cup {k}
        /\ Wrote = <<k>>

\* 'y', newline, newline, thirty times over
ManyOkBytes(w) ==
    /\ Len(w) = 90
    /\ \A i \in 1..90 : w[i] = IF i % 3 = 1 THEN 121 ELSE 10

\* the step handles control+'m' (left control alone) going down
ControlM ==
    /\ ev'.type = "KEYDOWN" /\ ev'.mod = 64 /\ ev'.sym = 109
    /\ ManyOkBytes(Wrote)
    /\ pressed' = pressed

\* C1 (as claimed): the all-up marker is written exactly once by every step that
\* takes the pressed set from non-empty to empty, and by no other step.
C1_MarkerExactlyOnLastRelease ==
    [][LET markers == {i \in 1..Len(Wrote) : Wrote[i] = 0}
       IN  Cardinality(markers) = IF pressed # {} /\ pressed' = {} THEN 1 ELSE 0]_vars

----
\* The monochrome decoder.

\* bit k (0 = least significant) of byte v is set
BitSet(v, k) == (v \div (2^k)) % 2 = 1

\* C4: after a read of n >= 1024 bytes, pixel (r, col) is foreground iff bit
\* r mod 8, least significant first, of byte (r div 8)*128 + col of the last 1024
\* bytes of the read is 1, and background otherwise; the bytes before the last
\* 1024 have no effect.
C4_MonoDecodesLastFrame ==
    (~is_q1 /\ Len(buf) >= 1024) =>
        \A r \in 0..63, col \in 0..127 :
            LET byte == buf[(Len(buf) - 1024) + (r \div 8) * 128 + col + 1]
            IN  mv[r][col] = IF BitSet(byte, r % 8) THEN OledFg ELSE OledBg

\* C4 witness: one read returned 2048 bytes, frame 1 then frame 2, which differ;
\* the top-left byte of frame 2 is 170, so pixel (1, 0) is lit and (0, 0) is not,
\* the top-left byte of frame 1 is 85, and would give the opposite
C4_Witness ==
    /\ Len(buf) = 2048
    /\ SubSeq(buf, 1, 1024) = OledFrame(1)
    /\ SubSeq(buf, 1025, 2048) = OledFrame(2)
    /\ buf[1] = 85 /\ buf[1025] = 170
    /\ mv[0][0] = OledBg /\ mv[1][0] = OledFg

\* C5 (as claimed): the firmware writes whole frames and the reads return
\* arbitrary chunks of them; the PixelBuffer is always its initial content or the
\* picture of one whole frame the firmware sent, never a mix of two frames.
C5_NeverMixedFrames ==
    \/ mv = OledInitMv
    \/ \E f \in OledFrames :
          \A r \in 0..63, col \in 0..127 :
              mv[r][col] = IF BitSet(OledFrame(f)[(r \div 8) * 128 + col + 1], r % 8)
                           THEN OledFg ELSE OledBg

\* the step is the handling of display_rx
DisplayStep == pc = "channels" /\ rs # <<>> /\ Head(rs) = "display_rx" /\ rs' # rs

\* C6: a read of zero bytes changes no pixel and leaves the session running; a
\* read of 1..1023 bytes raises, which ends the session, with no pixel changed.
C6_MonoEmptyAndShortReads ==
    [][(DisplayStep /\ ~is_q1) =>
          /\ Len(display_pipe) = 0 =>
                /\ mv' = mv
                /\ pc' \in {"channels", "poll"}
                /\ running' = running
          /\ (0 < Len(display_pipe) /\ Len(display_pipe) < 1024) =>
                /\ pc' = "raised"
                /\ mv' = mv]_vars

\* C6 witness: frame 1 was shown, then a read of 500 bytes raised; frame 1 is
\* still what the PixelBuffer shows
C6_Witness ==
    /\ pc = "raised"
    /\ Len(buf) = 500
    /\ mv = OledPaint(OledFrame(1))

----
\* The indexed decoder.

\* the cells of a record's rectangle
LcdRect(r) == {<<y, x>> : y \in r.Y..(r.Y + r.h - 1), x \in r.X..(r.X + r.w - 1)}

\* the records among rr that were accepted and cover the cell
LcdCovering(rr, cell) == {i \in 1..Len(rr) : rr[i].ok /\ cell \in LcdRect(rr[i])}

\* the cell of the sprite holds what the accepted records rr make of it, on top
\* of the sprite `before`: the colour of the low four bits of the cell's byte,
\* row-major, in the last accepted record that covers it
LcdCellAsSent(after, before, rr, cell) ==
    LET cov == LcdCovering(rr, cell)
        last == CHOOSE i \in cov : \A j \in cov : j <= i
        r == rr[last]
        byte == r.here[(cell[1] - r.Y) * r.w + (cell[2] - r.X) + 1]
    IN  IF cov = {}
        THEN cell \in DOMAIN before /\ after[cell] = before[cell]
        ELSE after[cell] = palette_colours[(byte % 16) + 1]

\* C7: a record with X+w > 320 or Y+h > 240 raises and writes no pixel; no cell
\* outside the 320x240 grid is ever written; the accepted records write exactly
\* the cells of their rectangles, row-major, each palette[byte & 0xF].
C7_IndexedBounds ==
    [][(DisplayStep /\ is_q1) =>
          /\ \A i \in 1..Len(recs') :
                (recs'[i].X + recs'[i].w > 320 \/ recs'[i].Y + recs'[i].h > 240) =>
                    /\ ~recs'[i].ok
                    /\ i = Len(recs')
                    /\ pc' = "raised"
          /\ DOMAIN mv' \subseteq (0..239) \X (0..319)
          /\ DOMAIN mv' =
                DOMAIN mv \cup UNION {LcdRect(recs'[i]) : i \in {j \in 1..Len(recs') : recs'[j].ok}}
          /\ \A cell \in DOMAIN mv' : LcdCellAsSent(mv', mv, recs', cell)]_vars

\* C7 witness: a record that ends at the grid's last column and last row was
\* accepted and painted the bottom-right pixel, and another one was refused
C7_Witness ==
    /\ pc = "raised"
    /\ Len(recs) = 2
    /\ recs[1].ok /\ recs[1].X + recs[1].w = 320 /\ recs[1].Y + recs[1].h = 240
    /\ <<239, 319>> \in DOMAIN mv
    /\ ~recs[2].ok /\ recs[2].X + recs[2].w > 320

\* C8: a call that does not raise has consumed every record up to an empty header
\* read and leaves the session running; a record whose payload read returns a
\* number of bytes other than w*h raises and writes no pixel.
C8_IndexedFraming ==
    [][(DisplayStep /\ is_q1) =>
          /\ pc' # "raised" =>
                /\ display_pipe' = <<>>
                /\ \A i \in 1..Len(recs') : recs'[i].ok
                /\ pc' \in {"channels", "poll"}
                /\ running' = running
          /\ \A i \in 1..Len(recs') :
                (LcdHeaderOk(recs'[i].X, recs'[i].Y, recs'[i].w, recs'[i].h)
                 /\ Len(recs'[i].here) # recs'[i].w * recs'[i].h) =>
                    /\ ~recs'[i].ok
                    /\ i = Len(recs')
                    /\ pc' = "raised"
                    /\ \A cell \in DOMAIN mv' :
                          LcdCellAsSent(mv', mv, SubSeq(recs', 1, i - 1), cell)]_vars

\* C8 witness: the header of a two-pixel record was read and its payload had not
\* arrived: the call raised, and the sprite is untouched
C8_Witness ==
    /\ pc = "raised"
    /\ Len(recs) = 1
    /\ recs[1].w * recs[1].h = 2
    /\ recs[1].here = <<>>
    /\ ~recs[1].ok
    /\ mv = LcdInitMv

\* C9 (as claimed): every record with width 0 or height 0 is accepted.
C9_EveryEmptyRecordAccepted ==
    \A i \in 1..Len(recs) : (recs[i].w = 0 \/ recs[i].h = 0) => recs[i].ok

\* C9 (amended): every record with width 0 or height 0 that lies within the
\* bounds (X+w <= 320 and Y+h <= 240) is accepted, writes no pixel, and is
\* followed by the read of the next header; every record with X+w > 320 raises,
\* also one with width 0 or height 0.
C9_EmptyRecordWithinBounds ==
    [][(DisplayStep /\ is_q1) =>
          /\ \A i \in 1..Len(recs') :
                ((recs'[i].w = 0 \/ recs'[i].h = 0)
                 /\ recs'[i].X + recs'[i].w <= 320 /\ recs'[i].Y + recs'[i].h <= 240) =>
                    /\ recs'[i].ok
                    /\ LcdRect(recs'[i]) = {}
                    /\ (i = Len(recs') /\ pc' # "raised") => display_pipe' = <<>>
          /\ (\A i \in 1..Len(recs') : recs'[i].w = 0 \/ recs'[i].h = 0) => mv' = mv
          /\ \A i \in 1..Len(recs') :
                recs'[i].X + recs'[i].w > 320 => ~recs'[i].ok /\ pc' = "raised"]_vars

\* C9 witness: an empty record was accepted and the record after it was painted
C9_Witness ==
    /\ pc # "raised"
    /\ Len(recs) = 2
    /\ recs[1].ok /\ recs[1].w = 0
    /\ recs[2].ok /\ recs[2].w * recs[2].h > 0
    /\ DOMAIN mv = LcdRect(recs[2])

----
\* The LED decoder.

\* C10: the mask passed to draw_leds is (b >> 4) AND (b AND 0x0F) of the last
\* status byte b alone: LED k is active iff bits k and k+4 of b are both set.
C10_LedMask ==
    c # None =>
        /\ active_set \in 0..15
        /\ \A k \in 0..3 : BitSet(active_set, k) <=> (BitSet(c, k) /\ BitSet(c, k + 4))
        /\ c = 0 => active_set = 0
        /\ c = 241 => active_set = 1
        /\ c = 18 => active_set = 0

\* C10 witness: 0xF1 was decoded to bit 0 alone, as the second byte received
C10_Witness ==
    /\ nwr = 2
    /\ led_pipe = <<>>
    /\ c = 241
    /\ active_set = 1

----
\* Key translation in the session.

\* the step handles a key event
KeyStep == EventStep /\ ev'.type \in {"KEYDOWN", "KEYUP"}

\* the key of the event has a character (chr() of its keysym succeeds)
HasChar(e) == 0 <= e.sym /\ e.sym <= 1114111

\* the character of the event's key, shifted when shift is held
Shifted(e) == IF BitAnd(e.mod, 3) # 0 THEN shift_up(e.sym) ELSE e.sym

\* C13 (as claimed): a key with a character, pressed or released while alt is
\* held and not one of n, q, l, writes nothing to key-out, leaves the pressed
\* set unchanged and leaves the session running.
C13_UnmappedAltIsDropped ==
    [][(KeyStep /\ BitAnd(ev'.mod, 768) # 0 /\ HasChar(ev')
            /\ Shifted(ev') \notin {110, 113, 108}) =>
          /\ Wrote = <<>>
          /\ pressed' = pressed
          /\ pc' = "events"
          /\ running' = running]_vars

\* C14: on the Mk4 the pressed set is a subset of {0-9, x, y} in every state,
\* and nothing but those codes, the marker and the newline of control+'m' is in
\* key-out; a key-down of escape leaves 'x' pressed, one of return 'y'.
C14_SmallKeypadAlphabet ==
    ~is_q1 =>
        /\ pressed \subseteq DeviceAlphabet
        /\ \A i \in 1..Len(keyout) : keyout[i] \in DeviceAlphabet \cup {0, OrdNl}
        /\ (ev.type = "KEYDOWN" /\ ev.mod = 0 /\ ev.sym = OrdEsc) => 120 \in pressed
        /\ (ev.type = "KEYDOWN" /\ ev.mod = 0 /\ ev.sym = OrdCr) => 121 \in pressed

\* C14 witness: escape and '5' (or the up arrow) are down on the Mk4 and a click
\* on the keypad's last cell has added 'y'
C14_Witness ==
    /\ ~is_q1
    /\ ev.type = "MOUSEBUTTONDOWN"
    /\ pressed = {120, 53, 121}
    /\ Len(keyout) = 3 /\ keyout[3] = 121

\* C15 (as claimed): a key event with left control held, with or without shift,
\* adds no key to the pressed set and writes no key's code to key-out.
C15_ControlNeverPassesThrough ==
    [][(KeyStep /\ BitAnd(ev'.mod, 64) # 0) =>
          /\ pressed' \subseteq pressed
          /\ ~DownTransition]_vars

PlainKey(e, q1) ==
    LET kc == KeyChar([e EXCEPT !.mod = 0], q1)
    IN  IF kc.skip THEN None ELSE IF q1 THEN kc.ch ELSE Mk4Remap(kc.ch)

\* C19 (as claimed): the key-up of a pressed key removes it from the set,
\* whatever the modifiers, and writes the marker when it was the last one.
C19_UpEdgeRemovesKey ==
    [][(KeyStep /\ ev'.type = "KEYUP" /\ PlainKey(ev', is_q1) \in pressed) =>
          /\ PlainKey(ev', is_q1) \notin pressed'
          /\ pressed' = {} => Wrote = <<0>>]_vars

----
\* The pointer.

\* floor(n / d) for d > 0, as the integer q with d*q <= n < d*(q+1)
FloorDiv(n, d) == CHOOSE q \in (0 - 8)..8 : d * q <= n /\ n < d * (q + 1)

\* C18: a click at (x, y) on the Mk4, with col = floor((x-52)/73) and
\* row = floor((y-216)/73), presses '123456789x0y'[row*3+col] iff 0 <= row < 4
\* and 0 <= col < 3 and presses nothing otherwise; (270, 507) presses 'y';
\* x = 271, y = 508, x = 51 and y = 215 press nothing.
C18_ClickMapping ==
    [][(EventStep /\ ev'.type = "MOUSEBUTTONDOWN" /\ ~is_q1) =>
          LET x == ev'.x
              y == ev'.y
              col == FloorDiv(x - 52, 73)
              row == FloorDiv(y - 216, 73)
              sym == <<49, 50, 51, 52, 53, 54, 55, 56, 57, 120, 48, 121>>
          IN  /\ IF 0 <= row /\ row < 4 /\ 0 <= col /\ col < 3
                 THEN LET k == sym[row * 3 + col + 1]
                      IN  /\ pressed' = pressed \cup {k}
                          /\ Wrote = IF k \in pressed THEN <<>> ELSE <<k>>
                 ELSE pressed' = pressed /\ Wrote = <<>>
              /\ (x = 270 /\ y = 507) => 121 \in pressed'
              /\ (x = 271 \/ y = 508 \/ x = 51 \/ y = 215) =>
                    (pressed' = pressed /\ Wrote = <<>>)]_vars

\* C18 witness: a click one pixel right of the grid pressed nothing, and the
\* click on the last pixel of the last cell then pressed 'y'
C18_Witness ==
    /\ ~is_q1
    /\ nev = 2
    /\ ev = [type |-> "MOUSEBUTTONDOWN", sym |-> 0, mod |-> 0, x |-> 270, y |-> 507]
    /\ pressed = {121}
    /\ keyout = <<121>>

----
\* The session's life cycle.

\* C11 (as claimed): the loop is left only after quit was dispatched or the
\* firmware process was found gone, and then by the path that ends with the
\* process released; running is cleared by the quit action alone.
C11_OnlyQuitOrExitLeavesRunning ==
    [][/\ (InLoop /\ ~InLoop') =>
             /\ ~running \/ xterm # "alive"
             /\ pc' = "done"
             /\ xterm' # "alive"
       /\ (running /\ ~running') => ctl' = "quit"]_vars

\* C12 (as claimed): however the session ended, once it is stopped the firmware
\* process has been released and the socket file is gone.
C12_CleanupOnEveryExit ==
    pc = "stopped" => (xterm # "alive" /\ ~sock)

\* C17: a host event is handled, and key-out written, only while no channel
\* has been read in this pass of the loop body; channels are read only once
\* the pass is done with its events.
C17_EventsBeforeChannels ==
    [][/\ EventStep => ~read_in_tick
       /\ Wrote # <<>> => (EventStep /\ ~read_in_tick)
       /\ (read_in_tick' /\ ~read_in_tick) => (pc = "channels" /\ ~EventStep)
       /\ (read_in_tick /\ InLoop) => pc \in {"channels", "poll"}]_vars

\* C17 witness: in one pass of the loop, '5' went down and was written to
\* key-out, and then the status byte 0xF1 was read from led_rx
C17_Witness ==
    /\ ev = [type |-> "KEYDOWN", sym |-> 53, mod |-> 0, x |-> 0, y |-> 0]
    /\ nev = 1
    /\ keyout = <<53>>
    /\ read_in_tick
    /\ c = 241
    /\ pc = "poll"

\* C20 (as claimed): handling the first of the channels that select() reported
\* leaves every other one of them to be handled in the same pass.
C20_EveryReadyChannelHandled ==
    [][(pc = "channels" /\ rs # <<>> /\ rs' # rs /\ pc' # "raised") =>
          rs' = Tail(rs)]_vars

====
